---------------------------- MODULE Spec2Model ----------------------------
(***************************************************************************)
(* A model of CuraEngine's layer-part construction (src/src/layerPart.cpp) *)
(* and of the Shape operations it relies on (src/src/geometry/shape.cpp).  *)
(*                                                                         *)
(* Points are pairs <<X, Y>> of integers, polygons and polylines are       *)
(* sequences of points, a Shape is a sequence of polygons.  C++ indices    *)
(* are kept zero based wherever the code computes with them (layers,       *)
(* polygon indices of findInside); sequences of polygons and parts are     *)
(* ordinary TLA+ sequences.                                                *)
(***************************************************************************)
EXTENDS Integers, Sequences, FiniteSets, TLC

VARIABLES
    settings,                   \* mesh.settings
    slicer_layers,              \* slicer->layers        (0 .. total_layers-1)
    mesh_layers,                \* mesh.layers           (0 .. total_layers-1)
    layer_nr_max_filled_layer,  \* mesh.layer_nr_max_filled_layer
    total_layers,               \* local of createLayerParts
    workers,                    \* size of the thread pool behind parallel_for
    task_pc,                    \* position of the per-layer task of each index
    task_result,                \* local `result` of createLayerWithParts
    main_pc,                    \* position of createLayerParts itself
    scan_nr,                    \* local LayerIndex layer_nr of the backward scan
    accesses,                   \* every access a task made: [task, obj, idx, write]
    scan_reads,                 \* layers whose storage the backward scan has read
    slicer_in,                  \* the slicer's layers as handed to createLayerParts
    settings_in,                \* the settings as handed to createLayerParts
    max_filled_in,              \* layer_nr_max_filled_layer before the call
    q_shape,                    \* Shape queried by inside / findInside
    q_point,                    \* query point p
    q_border,                   \* border_result
    q_pc,                       \* position of the containment query
    q_inside,                   \* value returned by Shape::inside
    q_found,                    \* value returned by Shape::findInside
    call_args,                  \* arguments of a call of one of the other operations
    call_result,                \* what that call returned or left behind
    call_pc                     \* position of that call

vars == <<settings, slicer_layers, mesh_layers, layer_nr_max_filled_layer,
          total_layers, workers, task_pc, task_result, main_pc, scan_nr,
          accesses, scan_reads, slicer_in, settings_in, max_filled_in,
          q_shape, q_point, q_border, q_pc, q_inside, q_found,
          call_args, call_result, call_pc>>

pipeline_vars == <<settings, slicer_layers, mesh_layers, layer_nr_max_filled_layer,
                   total_layers, workers, task_pc, task_result, main_pc, scan_nr,
                   accesses, scan_reads, slicer_in, settings_in, max_filled_in>>

query_vars == <<q_shape, q_point, q_border, q_pc, q_inside, q_found>>

call_vars == <<call_args, call_result, call_pc>>

(***************************************************************************)
(* Bounds of the model.                                                    *)
(***************************************************************************)
MaxLayers == 2      \* createLayerParts runs on 0 .. MaxLayers layers
MaxWorkers == 2     \* parallel_for runs at most 1 .. MaxWorkers tasks at once
NumRects == 5       \* contours a single-layer scene is drawn from
MaxCoord == 6       \* query points lie in -1 .. MaxCoord on both axes

(***************************************************************************)
(* Sequence helpers.                                                       *)
(***************************************************************************)
RECURSIVE SeqSum(_)
SeqSum(s) == IF s = <<>> THEN 0 ELSE Head(s) + SeqSum(Tail(s))

Reverse(s) == [k \in 1 .. Len(s) |-> s[Len(s) + 1 - k]]

Range(s) == {s[k] : k \in 1 .. Len(s)}

RECURSIVE Flatten(_)
Flatten(ss) == IF ss = <<>> THEN <<>> ELSE Head(ss) \o Flatten(Tail(ss))

SetMin(S) == CHOOSE x \in S : \A y \in S : x <= y
SetMax(S) == CHOOSE x \in S : \A y \in S : x >= y

\* C++ integer division truncates toward zero.
CDiv(a, b) ==
    LET q == (IF a < 0 THEN -a ELSE a) \div (IF b < 0 THEN -b ELSE b)
    IN  IF (a < 0) = (b < 0) THEN q ELSE -q


(***************************************************************************)
(* Points, polygons, Shapes.                                               *)
(***************************************************************************)
Pt(x, y) == <<x, y>>
X(p) == p[1]
Y(p) == p[2]

\* A rectangle as a polygon, counter-clockwise from its lower left corner.
RectPoly(x0, y0, x1, y1) == <<Pt(x0, y0), Pt(x1, y0), Pt(x1, y1), Pt(x0, y1)>>

\* Twice the signed area of a closed polygon (positive: counter-clockwise).
Area2(poly) ==
    IF Len(poly) < 3 THEN 0
    ELSE SeqSum([k \in 1 .. Len(poly) |->
            LET a == poly[k]
                b == poly[(k % Len(poly)) + 1]
            IN  X(a) * Y(b) - X(b) * Y(a)])

\* Polygon::orientation(): true for a polygon of non-negative area.
orientation(poly) == Area2(poly) >= 0

\* Polygon::reverse()
reverse(poly) == Reverse(poly)

\* Shape::empty() / Polygon::empty(): the container holds no element.
empty(c) == Len(c) = 0

AllPoints(shape) == UNION {Range(shape[k]) : k \in 1 .. Len(shape)}

\* AABB::calculate(shape): the bounding box of all points, "none" without points.
AABB_calculate(shape) ==
    LET pts == AllPoints(shape)
    IN  IF pts = {} THEN "none"
        ELSE [min |-> Pt(SetMin({X(p) : p \in pts}), SetMin({Y(p) : p \in pts})),
              max |-> Pt(SetMax({X(p) : p \in pts}), SetMax({Y(p) : p \in pts}))]

(***************************************************************************)
(* The clipping engine's union into a nesting forest (ClipperLib::Clipper  *)
(* ::Execute(ctUnion, PolyTree, fill, fill)).  The engine is a library     *)
(* outside the repository; it is modelled on the inputs the model feeds    *)
(* it: families of axis-parallel rectangles that are pairwise disjoint or  *)
(* strictly nested, plus empty paths, which the engine ignores.  A contour *)
(* of the result separates filled from unfilled area under the fill rule;  *)
(* outer contours come out counter-clockwise, holes clockwise, children    *)
(* ordered by their lower left corner.                                     *)
(***************************************************************************)
RECURSIVE FoldMin(_, _), FoldMax(_, _)
FoldMin(s, m) == IF s = <<>> THEN m
                 ELSE FoldMin(Tail(s), IF Head(s) < m THEN Head(s) ELSE m)
FoldMax(s, m) == IF s = <<>> THEN m
                 ELSE FoldMax(Tail(s), IF Head(s) > m THEN Head(s) ELSE m)

BBox(poly) ==
    LET xs == [k \in 1 .. Len(poly) |-> X(poly[k])]
        ys == [k \in 1 .. Len(poly) |-> Y(poly[k])]
    IN  [x0 |-> FoldMin(xs, xs[1]), y0 |-> FoldMin(ys, ys[1]),
         x1 |-> FoldMax(xs, xs[1]), y1 |-> FoldMax(ys, ys[1])]

BoxInside(a, b) == /\ b.x0 < a.x0 /\ a.x1 < b.x1
                   /\ b.y0 < a.y0 /\ a.y1 < b.y1

BoxBefore(a, b) == a.x0 < b.x0 \/ (a.x0 = b.x0 /\ a.y0 < b.y0)

\* The signed winding a path contributes to the area it encloses.
PathDir(poly) == IF Area2(poly) > 0 THEN 1 ELSE -1

\* The paths of a Shape the engine accepts (closed paths of at least 3 points),
\* each with its box and winding: a sequence of [box, dir].
RECURSIVE ClipPaths(_)
ClipPaths(shape) ==
    IF shape = <<>> THEN <<>>
    ELSE (IF Len(Head(shape)) >= 3
          THEN <<[box |-> BBox(Head(shape)), dir |-> PathDir(Head(shape))]>>
          ELSE <<>>)
         \o ClipPaths(Tail(shape))

\* Whether area of winding number w that lies inside n paths is filled.
Filled(fill, w, n) == IF fill = "NonZero" THEN w # 0 ELSE n % 2 = 1

\* Per path: the paths around it, and whether the area just outside and just
\* inside of it is filled.
RECURSIVE PathTable(_, _, _)
PathTable(paths, fill, k) ==
    IF k > Len(paths) THEN <<>>
    ELSE LET enc == {j \in 1 .. Len(paths) : BoxInside(paths[k].box, paths[j].box)}
             w == SeqSum([j \in 1 .. Len(paths) |-> IF j \in enc THEN paths[j].dir ELSE 0])
             n == Cardinality(enc)
         IN  <<[box |-> paths[k].box, enc |-> enc,
                outside |-> Filled(fill, w, n),
                inside |-> Filled(fill, w + paths[k].dir, n + 1)]>>
             \o PathTable(paths, fill, k + 1)

\* The paths that are contours of the union.
Contours(table) == {k \in 1 .. Len(table) : table[k].inside # table[k].outside}

\* The contour the engine emits for path k: counter-clockwise when outer.
ContourOf(table, k) ==
    LET b == table[k].box
        r == RectPoly(b.x0, b.y0, b.x1, b.y1)
    IN  IF table[k].outside THEN Reverse(r) ELSE r

\* A set of paths as a sequence, ordered by lower left corner.
RECURSIVE OrderPaths(_, _)
OrderPaths(table, S) ==
    IF S = {} THEN <<>>
    ELSE LET first == CHOOSE k \in S :
                        \A j \in S \ {k} : BoxBefore(table[k].box, table[j].box)
         IN  <<first>> \o OrderPaths(table, S \ {first})

\* The contours directly inside contour `parent` (0: the root of the PolyTree).
DirectChildren(table, parent) ==
    LET cs == Contours(table)
        below == IF parent = 0 THEN cs ELSE {k \in cs : parent \in table[k].enc}
    IN  {k \in below : table[k].enc \cap below = {}}

\* The PolyNodes below `parent`, each a record [Contour, Childs].
RECURSIVE PolyNodes(_, _, _)
PolyNodes(table, order, n) ==
    IF n > Len(order) THEN <<>>
    ELSE <<[Contour |-> ContourOf(table, order[n]),
            Childs |-> PolyNodes(table,
                                 OrderPaths(table, DirectChildren(table, order[n])), 1)]>>
         \o PolyNodes(table, order, n + 1)

\* clipper.Execute(ctUnion, resultPolyTree, fill, fill): the root PolyNode.
ClipperUnionTree(shape, fill) ==
    LET table == PathTable(ClipPaths(shape), fill, 1)
    IN  [Contour |-> <<>>,
         Childs |-> PolyNodes(table, OrderPaths(table, DirectChildren(table, 0)), 1)]

(***************************************************************************)
(* Shape::splitIntoParts and its recursive walk of the PolyTree.           *)
(***************************************************************************)
\* A faulty variant of holeContour: the part's own contour is added again.
holeContour_outer(child, i) == child.Contour

\* child->Childs[i]->Contour, the polygon added to the part for hole i.
holeContour(child, i) == child.Childs[i].Contour

RECURSIVE splitIntoParts_processPolyTreeNode(_, _)
RECURSIVE splitIntoParts_holes(_, _, _, _)
RECURSIVE splitIntoParts_children(_, _, _)

\* The inner loop over the holes of `child`, from hole i on: the part and ret.
splitIntoParts_holes(child, i, part, ret) ==
    IF i > Len(child.Childs) THEN [part |-> part, ret |-> ret]
    ELSE splitIntoParts_holes(child, i + 1,
                              Append(part, holeContour(child, i)),
                              splitIntoParts_processPolyTreeNode(child.Childs[i], ret))

\* The outer loop over the children of `node`, from child n on.
splitIntoParts_children(node, n, ret) ==
    IF n > Len(node.Childs) THEN ret
    ELSE LET child == node.Childs[n]
             done == splitIntoParts_holes(child, 1, <<child.Contour>>, ret)
         IN  splitIntoParts_children(node, n + 1, Append(done.ret, done.part))

splitIntoParts_processPolyTreeNode(node, ret) == splitIntoParts_children(node, 1, ret)

\* The fill rule of the union: pftNonZero when unionAll, the default otherwise.
splitIntoParts_fill(unionAll) == IF unionAll THEN "NonZero" ELSE "EvenOdd"

splitIntoParts(shape, unionAll) ==
    splitIntoParts_processPolyTreeNode(
        ClipperUnionTree(shape, splitIntoParts_fill(unionAll)), <<>>)

(***************************************************************************)
(* The collaborators of createLayerWithParts that take the open polylines. *)
(***************************************************************************)
Dist2(p, q) == (X(p) - X(q)) * (X(p) - X(q)) + (Y(p) - Y(q)) * (Y(p) - Y(q))

\* A polyline the stitcher closes: its ends lie within max_stitch_distance.
stitch_closes(line, max_stitch_distance) ==
    /\ Len(line) >= 3
    /\ Dist2(line[1], line[Len(line)]) <= max_stitch_distance * max_stitch_distance

\* OpenPolylineStitcher::stitch: what it adds to result_polygons ...
stitch_result_polygons(lines, max_stitch_distance) ==
    SelectSeq(lines, LAMBDA l : stitch_closes(l, max_stitch_distance))

\* ... and to result_lines.
stitch_result_lines(lines, max_stitch_distance) ==
    SelectSeq(lines, LAMBDA l : ~ stitch_closes(l, max_stitch_distance))

\* Simplify(settings).polyline(lines): keeps the polylines that are still lines.
Simplify_polyline(lines) == SelectSeq(lines, LAMBDA l : Len(l) >= 2)

(***************************************************************************)
(* createLayerWithParts, stage by stage.                                   *)
(***************************************************************************)
\* Lines 33-35: stitch the open polylines, simplify what stays open.
stitch_stage(s, storageLayer, layer) ==
    [storageLayer |->
        [storageLayer EXCEPT !.open_polylines =
            Simplify_polyline(@ \o stitch_result_lines(layer.open_polylines_,
                                                       s.wall_line_width_0))],
     layer |->
        [layer EXCEPT !.polygons_ =
            @ \o stitch_result_polygons(layer.open_polylines_, s.wall_line_width_0)]]

\* A faulty variant of fixup_stage: the reversal is not guarded by the setting.
fixup_stage_unguarded(s, layer) ==
    [layer EXCEPT !.polygons_ =
        [i \in 1 .. Len(@) |-> IF orientation(@[i]) THEN reverse(@[i]) ELSE @[i]]]

\* Lines 37-45: with meshfix_union_all_remove_holes, reverse what is oriented.
fixup_stage(s, layer) ==
    IF s.meshfix_union_all_remove_holes
    THEN [layer EXCEPT !.polygons_ =
            [i \in 1 .. Len(@) |-> IF orientation(@[i]) THEN reverse(@[i]) ELSE @[i]]]
    ELSE layer

\* Lines 52-61: every non-empty polygon becomes a part of its own.
surface_parts(polygons) ==
    [k \in 1 .. Len(SelectSeq(polygons, LAMBDA poly : ~ empty(poly))) |->
        <<SelectSeq(polygons, LAMBDA poly : ~ empty(poly))[k]>>]

\* Line 50: the branch that does no boolean processing.
takes_surface_branch(s) ==
    s.magic_mesh_surface_mode = "SURFACE" /\ ~ s.meshfix_union_all

\* Lines 47-66: the local `result`.
split_stage(s, layer) ==
    IF takes_surface_branch(s)
    THEN surface_parts(layer.polygons_)
    ELSE splitIntoParts(layer.polygons_,
                        s.meshfix_union_all \/ s.meshfix_union_all_remove_holes)

\* A default constructed SliceLayerPart.
NewPart == [outline |-> <<>>, boundaryBox |-> "none", fiberpath |-> <<>>]

\* A faulty variant of outline_dropped: the test of line 77 inverted.
outline_dropped_inverted(part) == ~ empty(part.outline)

\* Line 77: the part just filled is removed again.
outline_dropped(part) == empty(part.outline)

\* Lines 68-81: the loop over `result`, from element k on.
RECURSIVE materialize_loop(_, _, _)
materialize_loop(parts, result, k) ==
    IF k > Len(result) THEN parts
    ELSE LET part == result[k]
             added == Append(parts, NewPart)
             filled == [added EXCEPT ![Len(added)] =
                          [@ EXCEPT !.outline = part,
                                    !.boundaryBox = AABB_calculate(part)]]
         IN  IF empty(part)
             THEN materialize_loop(added, result, k + 1)
             ELSE IF outline_dropped(filled[Len(filled)])
                  THEN materialize_loop(SubSeq(filled, 1, Len(filled) - 1), result, k + 1)
                  ELSE materialize_loop(filled, result, k + 1)

materialize_stage(storageLayer, result) ==
    [storageLayer EXCEPT !.parts = materialize_loop(@, result, 1)]

\* The whole of createLayerWithParts: the storage layer and the slicer layer after it.
createLayerWithParts(s, storageLayer, layer) ==
    LET stitched == stitch_stage(s, storageLayer, layer)
        fixed == fixup_stage(s, stitched.layer)
    IN  [storageLayer |-> materialize_stage(stitched.storageLayer, split_stage(s, fixed)),
         layer |-> fixed]

(***************************************************************************)
(* createLayerParts: the parallel phase and the backward scan.             *)
(***************************************************************************)
Layers == 0 .. total_layers - 1

\* A faulty variant of layer_storage: every task is handed the storage of layer 0.
layer_storage_first(layer_nr) == 0

\* Line 118: the storage layer the task of layer_nr works on.
layer_storage(layer_nr) == layer_nr

\* A faulty variant of slice_layer: every task is handed the slicer layer 0.
slice_layer_first(layer_nr) == 0

\* Line 119: the slicer layer the task of layer_nr works on.
slice_layer(layer_nr) == layer_nr

\* An access of the task of layer_nr, as the access log keeps it.
Access(layer_nr, obj, idx, write) ==
    [task |-> layer_nr, obj |-> obj, idx |-> idx, write |-> write]

ReadsSettings(layer_nr) == Access(layer_nr, "mesh.settings", 0, FALSE)

Running == {i \in Layers : task_pc[i] \notin {"idle", "done"}}

\* parallel_for hands index layer_nr to a free worker; the task starts with
\* the stitching of lines 33-35.
TaskStitch(layer_nr) ==
    /\ main_pc = "parallel_for"
    /\ task_pc[layer_nr] = "idle"
    /\ Cardinality(Running) < workers
    /\ LET ls == layer_storage(layer_nr)
           sl == slice_layer(layer_nr)
           after == stitch_stage(settings, mesh_layers[ls], slicer_layers[sl])
       IN  /\ mesh_layers' = [mesh_layers EXCEPT ![ls] = after.storageLayer]
           /\ slicer_layers' = [slicer_layers EXCEPT ![sl] = after.layer]
           /\ accesses' = accesses \cup
                {ReadsSettings(layer_nr),
                 Access(layer_nr, "slicer.layers", sl, FALSE),
                 Access(layer_nr, "slicer.layers", sl, TRUE),
                 Access(layer_nr, "mesh.layers", ls, TRUE)}
    /\ task_pc' = [task_pc EXCEPT ![layer_nr] = "fixup"]
    /\ UNCHANGED <<settings, layer_nr_max_filled_layer, total_layers, workers,
                   task_result, main_pc, scan_nr, scan_reads, slicer_in, settings_in,
                   max_filled_in, query_vars, call_vars>>

\* Lines 37-45.
TaskFixup(layer_nr) ==
    /\ task_pc[layer_nr] = "fixup"
    /\ LET sl == slice_layer(layer_nr)
       IN  /\ slicer_layers' = [slicer_layers EXCEPT ![sl] = fixup_stage(settings, @)]
           /\ accesses' = accesses \cup
                ({ReadsSettings(layer_nr)} \cup
                 IF settings.meshfix_union_all_remove_holes
                 THEN {Access(layer_nr, "slicer.layers", sl, FALSE),
                       Access(layer_nr, "slicer.layers", sl, TRUE)}
                 ELSE {})
    /\ task_pc' = [task_pc EXCEPT ![layer_nr] = "split"]
    /\ UNCHANGED <<settings, mesh_layers, layer_nr_max_filled_layer, total_layers,
                   workers, task_result, main_pc, scan_nr, scan_reads, slicer_in,
                   settings_in, max_filled_in, query_vars, call_vars>>

\* Lines 47-66.
TaskSplit(layer_nr) ==
    /\ task_pc[layer_nr] = "split"
    /\ LET sl == slice_layer(layer_nr)
       IN  /\ task_result' = [task_result EXCEPT
                                ![layer_nr] = split_stage(settings, slicer_layers[sl])]
           /\ accesses' = accesses \cup
                {ReadsSettings(layer_nr), Access(layer_nr, "slicer.layers", sl, FALSE)}
    /\ task_pc' = [task_pc EXCEPT ![layer_nr] = "materialize"]
    /\ UNCHANGED <<settings, slicer_layers, mesh_layers, layer_nr_max_filled_layer,
                   total_layers, workers, main_pc, scan_nr, scan_reads, slicer_in,
                   settings_in, max_filled_in, query_vars, call_vars>>

\* Lines 68-81; the task is over with them.
TaskMaterialize(layer_nr) ==
    /\ task_pc[layer_nr] = "materialize"
    /\ LET ls == layer_storage(layer_nr)
       IN  /\ mesh_layers' = [mesh_layers EXCEPT
                                ![ls] = materialize_stage(@, task_result[layer_nr])]
           /\ accesses' = accesses \cup
                {Access(layer_nr, "mesh.layers", ls, FALSE),
                 Access(layer_nr, "mesh.layers", ls, TRUE)}
    /\ task_pc' = [task_pc EXCEPT ![layer_nr] = "done"]
    /\ UNCHANGED <<settings, slicer_layers, layer_nr_max_filled_layer, total_layers,
                   workers, task_result, main_pc, scan_nr, scan_reads, slicer_in,
                   settings_in, max_filled_in, query_vars, call_vars>>

\* A faulty variant of parallel_for_returns: it returns once every index was handed out.
parallel_for_returns_early == \A i \in Layers : task_pc[i] # "idle"

\* parallel_for blocks until the task of every index is over.
parallel_for_returns == \A i \in Layers : task_pc[i] = "done"

\* LayerIndex layer_nr = total_layers - 1: the size_t difference wraps at 0 and
\* narrows to the int of LayerIndex, which gives -1.
InitialScanIndex(n) == IF n = 0 THEN -1 ELSE n - 1

\* Line 113-123: parallel_for returns and the scan's index is initialised.
ParallelForJoin ==
    /\ main_pc = "parallel_for"
    /\ parallel_for_returns
    /\ main_pc' = "scan"
    /\ scan_nr' = InitialScanIndex(total_layers)
    /\ UNCHANGED <<settings, slicer_layers, mesh_layers, layer_nr_max_filled_layer,
                   total_layers, workers, task_pc, task_result, accesses, scan_reads,
                   slicer_in, settings_in, max_filled_in, query_vars, call_vars>>

\* Line 126: the layer holds something.
layer_filled(s, layer_storage_) ==
    \/ Len(layer_storage_.parts) > 0
    \/ (s.magic_mesh_surface_mode # "NORMAL" /\ Len(layer_storage_.open_polylines) > 0)

\* A faulty variant of scan_stops: the loop has no break.
scan_stops_never(filled) == FALSE

\* Line 129: the scan ends at the first filled layer it meets.
scan_stops(filled) == filled

\* Lines 123-131: one iteration of the backward scan, or its end.
ScanStep ==
    /\ main_pc = "scan"
    /\ IF scan_nr >= 0
       THEN LET filled == layer_filled(settings, mesh_layers[scan_nr])
            IN  /\ scan_reads' = scan_reads \cup {scan_nr}
                /\ layer_nr_max_filled_layer' =
                        IF filled THEN scan_nr ELSE layer_nr_max_filled_layer
                /\ IF scan_stops(filled)
                   THEN main_pc' = "done" /\ scan_nr' = scan_nr
                   ELSE main_pc' = "scan" /\ scan_nr' = scan_nr - 1
       ELSE /\ main_pc' = "done"
            /\ UNCHANGED <<scan_nr, scan_reads, layer_nr_max_filled_layer>>
    /\ UNCHANGED <<settings, slicer_layers, mesh_layers, total_layers, workers,
                   task_pc, task_result, accesses, slicer_in, settings_in,
                   max_filled_in, query_vars, call_vars>>

(***************************************************************************)
(* Containment queries: Shape::inside and Shape::findInside.               *)
(***************************************************************************)
\* The value of findInside that names no polygon (the largest size_t, which no
\* index reaches; written here as a value below every index).
NO_INDEX == -1

\* std::numeric_limits<int64_t>::max(), as far as the integers of TLC reach.
INT64_MAX == 2147483647

\* The edges of a closed polygon as the loops walk them: p0 starts at back().
EdgeStart(poly, k) == IF k = 1 THEN poly[Len(poly)] ELSE poly[k - 1]
EdgeEnd(poly, k) == poly[k]

Max2(a, b) == IF a >= b THEN a ELSE b
Min2(a, b) == IF a <= b THEN a ELSE b

\* LinearAlg2D::pointLiesOnTheRightOfLine(p, p0, p1): 1 when the edge p0-p1
\* crosses the horizontal ray from p to the right, 0 when p lies on the edge,
\* -1 otherwise.
pointLiesOnTheRightOfLine(p, p0, p1) ==
    LET pd_y == Y(p1) - Y(p0)
        dx_falling == (X(p1) - X(p0)) * (Y(p1) - Y(p)) - (X(p1) - X(p)) * pd_y
        dx_rising == (X(p1) - X(p0)) * (Y(p) - Y(p0)) - (X(p) - X(p0)) * pd_y
    IN  IF Max2(X(p0), X(p1)) < X(p) THEN -1
        ELSE IF pd_y < 0
        THEN IF Y(p1) <= Y(p) /\ Y(p0) > Y(p)
             THEN (IF dx_falling = 0 THEN 0 ELSE IF dx_falling > 0 THEN 1 ELSE -1)
             ELSE -1
        ELSE IF Y(p) >= Y(p0)
        THEN IF Y(p) < Y(p1)
             THEN (IF dx_rising = 0 THEN 0 ELSE IF dx_rising > 0 THEN 1 ELSE -1)
             ELSE IF Y(p) = Y(p1)
                     /\ (X(p) = X(p1) \/ (pd_y = 0 /\ Min2(X(p0), X(p1)) <= X(p)))
                  THEN 0
                  ELSE -1
        ELSE -1

\* p lies on the closed segment from a to b.
OnSegment(p, a, b) ==
    /\ (X(b) - X(a)) * (Y(p) - Y(a)) = (X(p) - X(a)) * (Y(b) - Y(a))
    /\ Min2(X(a), X(b)) <= X(p) /\ X(p) <= Max2(X(a), X(b))
    /\ Min2(Y(a), Y(b)) <= Y(p) /\ Y(p) <= Max2(Y(a), Y(b))

\* The edge from a to b crosses the horizontal ray from p to the right.
CrossesRay(p, a, b) ==
    LET d == (X(b) - X(a)) * (Y(p) - Y(a)) - (X(p) - X(a)) * (Y(b) - Y(a))
    IN  /\ (Y(a) > Y(p)) # (Y(b) > Y(p))
        /\ IF Y(b) > Y(a) THEN d > 0 ELSE d < 0

\* ClipperLib::PointInPolygon(p, poly): -1 on the boundary, 1 inside, 0 outside.
PointInPolygon(p, poly) ==
    IF Len(poly) < 3 THEN 0
    ELSE IF \E k \in 1 .. Len(poly) : OnSegment(p, EdgeStart(poly, k), EdgeEnd(poly, k))
    THEN -1
    ELSE Cardinality({k \in 1 .. Len(poly) :
                        CrossesRay(p, EdgeStart(poly, k), EdgeEnd(poly, k))}) % 2

\* Shape::inside(p, border_result): the loop from polygon k on.
RECURSIVE inside_loop(_, _, _, _, _)
inside_loop(shape, p, border_result, k, poly_count_inside) ==
    IF k > Len(shape) THEN (poly_count_inside % 2) = 1
    ELSE LET is_inside_this_poly == PointInPolygon(p, shape[k])
         IN  IF is_inside_this_poly = -1 THEN border_result
             ELSE inside_loop(shape, p, border_result, k + 1,
                              poly_count_inside + is_inside_this_poly)

inside(shape, p, border_result) == inside_loop(shape, p, border_result, 1, 0)

\* The comparison of p with edge k of polygon poly_idx (zero based).
EdgeComp(shape, p, poly_idx, k) ==
    pointLiesOnTheRightOfLine(p, EdgeStart(shape[poly_idx + 1], k),
                                 EdgeEnd(shape[poly_idx + 1], k))

\* Lines 189-196: where edge k of the polygon meets the line through p.
CrossingX(poly, p, k) ==
    LET p0 == EdgeStart(poly, k)
        p1 == EdgeEnd(poly, k)
    IN  IF Y(p1) = Y(p0) THEN X(p0)
        ELSE X(p0) + CDiv((X(p1) - X(p0)) * (Y(p) - Y(p0)), Y(p1) - Y(p0))

\* crossings[poly_idx] after the first loop.
crossings(shape, p, poly_idx) ==
    Cardinality({k \in 1 .. Len(shape[poly_idx + 1]) : EdgeComp(shape, p, poly_idx, k) = 1})

\* min_x[poly_idx] after the first loop.
min_x(shape, p, poly_idx) ==
    LET xs == {CrossingX(shape[poly_idx + 1], p, k) :
                 k \in {j \in 1 .. Len(shape[poly_idx + 1]) :
                          EdgeComp(shape, p, poly_idx, j) = 1}}
    IN  IF xs = {} THEN INT64_MAX ELSE SetMin(xs)

\* Lines 210-229: the second loop, from array_idx on, and the result.
RECURSIVE findInside_select(_, _, _, _, _, _)
findInside_select(shape, p, array_idx, min_x_uneven, ret, n_unevens) ==
    IF array_idx >= Len(shape)
    THEN (IF n_unevens % 2 = 0 THEN NO_INDEX ELSE ret)
    ELSE IF crossings(shape, p, array_idx) % 2 = 1
    THEN IF min_x(shape, p, array_idx) < min_x_uneven
         THEN findInside_select(shape, p, array_idx + 1, min_x(shape, p, array_idx),
                                array_idx, n_unevens + 1)
         ELSE findInside_select(shape, p, array_idx + 1, min_x_uneven, ret, n_unevens + 1)
    ELSE findInside_select(shape, p, array_idx + 1, min_x_uneven, ret, n_unevens)

\* Line 171: what findInside returns for a Shape without polygons (`false`).
findInside_of_empty == 0

\* Shape::findInside(p, border_result).  The first loop returns at the first
\* edge on which p lies, when border_result is set.
findInside(shape, p, border_result) ==
    IF Len(shape) < 1 THEN findInside_of_empty
    ELSE LET on_border == {poly_idx \in 0 .. Len(shape) - 1 :
                             \E k \in 1 .. Len(shape[poly_idx + 1]) :
                                EdgeComp(shape, p, poly_idx, k) = 0}
         IN  IF border_result /\ on_border # {}
             THEN SetMin(on_border)
             ELSE findInside_select(shape, p, 0, INT64_MAX, NO_INDEX, 0)

\* The Shapes queried: none of their polygons is empty.
QueryShapes ==
    {<<>>,
     <<RectPoly(0, 0, 6, 6)>>,
     <<RectPoly(0, 0, 6, 6), Reverse(RectPoly(2, 2, 4, 4))>>,
     <<Reverse(RectPoly(2, 2, 4, 4)), RectPoly(0, 0, 6, 6)>>,
     <<RectPoly(0, 0, 6, 6), Reverse(RectPoly(1, 1, 5, 5)), RectPoly(2, 2, 4, 4)>>,
     <<RectPoly(0, 0, 2, 2), RectPoly(4, 3, 6, 5)>>,
     <<RectPoly(0, 0, 4, 4), RectPoly(2, 1, 6, 5)>>,
     <<<<Pt(0, 0), Pt(6, 0), Pt(0, 6)>>>>,
     <<<<Pt(0, 0), Pt(5, 2), Pt(6, 6), Pt(1, 3)>>, <<Pt(3, 1), Pt(6, 0), Pt(5, 5)>>>>}

QueryPoints == {Pt(x, y) : x \in -1 .. MaxCoord, y \in -1 .. MaxCoord}

CallInside ==
    /\ q_pc \in SUBSET {"inside", "findInside"}
    /\ "inside" \notin q_pc
    /\ q_inside' = inside(q_shape, q_point, q_border)
    /\ q_pc' = q_pc \cup {"inside"}
    /\ UNCHANGED <<q_shape, q_point, q_border, q_found, pipeline_vars, call_vars>>

CallFindInside ==
    /\ q_pc \in SUBSET {"inside", "findInside"}
    /\ "findInside" \notin q_pc
    /\ q_found' = findInside(q_shape, q_point, q_border)
    /\ q_pc' = q_pc \cup {"findInside"}
    /\ UNCHANGED <<q_shape, q_point, q_border, q_inside, pipeline_vars, call_vars>>

(***************************************************************************)
(* The inputs: settings and slicer layers.                                 *)
(***************************************************************************)
SettingsSpace ==
    [wall_line_width_0 : {1},
     meshfix_union_all_remove_holes : BOOLEAN,
     meshfix_union_all : BOOLEAN,
     magic_mesh_surface_mode : {"NORMAL", "SURFACE", "BOTH"}]

\* Rectangles that are pairwise disjoint or strictly nested: a large square,
\* a square inside it, two squares apart, a square inside the inner square,
\* one more square apart.
RectCatalogue ==
    <<RectPoly(0, 0, 12, 12), RectPoly(1, 1, 6, 6), RectPoly(14, 0, 16, 2),
      RectPoly(14, 4, 16, 6), RectPoly(2, 2, 4, 4), RectPoly(18, 0, 20, 2)>>

UsedRects == 1 .. (IF NumRects < Len(RectCatalogue) THEN NumRects ELSE Len(RectCatalogue))

\* The polygons of a choice per rectangle, in catalogue order.
RECURSIVE ChosenPolygons(_, _)
ChosenPolygons(choice, k) ==
    IF k \notin UsedRects THEN <<>>
    ELSE (CASE choice[k] = "ccw" -> <<RectCatalogue[k]>>
            [] choice[k] = "cw" -> <<Reverse(RectCatalogue[k])>>
            [] OTHER -> <<>>)
         \o ChosenPolygons(choice, k + 1)

\* An open polyline whose ends the stitcher joins (it runs inside the large
\* square, apart from the square inside it), and one it leaves open.
ClosingPolyline == <<Pt(8, 8), Pt(10, 8), Pt(10, 10), Pt(8, 10), Pt(8, 9)>>
OpenPolyline == <<Pt(26, 0), Pt(30, 0), Pt(30, 4)>>

SlicerLayer(polygons, lines) == [polygons_ |-> polygons, open_polylines_ |-> lines]

\* The slicer layers of one choice of rectangles.
SceneVariants(polygons) ==
    {SlicerLayer(polygons, <<>>),
     SlicerLayer(Reverse(polygons), <<>>),
     SlicerLayer(<<<<>>>> \o polygons \o <<<<>>>>, <<>>),
     SlicerLayer(polygons, <<OpenPolyline, ClosingPolyline>>),
     SlicerLayer(polygons, <<OpenPolyline>>)}

LayerScenes ==
    UNION {SceneVariants(ChosenPolygons(choice, 1)) :
             choice \in [UsedRects -> {"absent", "ccw", "cw"}]}

\* The layers the runs over several layers are made of: an empty layer, a layer
\* of open polylines only, a square with a hole, a square and a closing polyline.
PipelineScenes ==
    {SlicerLayer(<<>>, <<>>),
     SlicerLayer(<<>>, <<OpenPolyline>>),
     SlicerLayer(<<RectCatalogue[1], Reverse(RectCatalogue[2])>>, <<>>),
     SlicerLayer(<<RectCatalogue[3]>>, <<ClosingPolyline>>)}

EmptyStorageLayer == [parts |-> <<>>, open_polylines |-> <<>>]

QueryIdle ==
    /\ q_shape = <<>>
    /\ q_point = Pt(0, 0)
    /\ q_border = FALSE
    /\ q_pc = {"off"}
    /\ q_inside = FALSE
    /\ q_found = 0

\* No call of another operation is under way.
CallIdle ==
    /\ call_args = <<>>
    /\ call_result = <<>>
    /\ call_pc = "off"

\* The state at the call of createLayerParts(mesh, slicer).
InitCall(n, layers, s, w, m) ==
    /\ total_layers = n
    /\ slicer_layers = layers
    /\ slicer_in = layers
    /\ settings = s
    /\ settings_in = s
    /\ workers = w
    /\ layer_nr_max_filled_layer = m
    /\ max_filled_in = m
    /\ mesh_layers = [i \in 0 .. n - 1 |-> EmptyStorageLayer]
    /\ task_pc = [i \in 0 .. n - 1 |-> "idle"]
    /\ task_result = [i \in 0 .. n - 1 |-> <<>>]
    /\ main_pc = "parallel_for"
    /\ scan_nr = 0
    /\ accesses = {}
    /\ scan_reads = {}
    /\ QueryIdle
    /\ CallIdle

Init ==
    \E n \in 0 .. MaxLayers :
      \E layers \in [0 .. n - 1 -> PipelineScenes] :
        \E s \in SettingsSpace, w \in {1, MaxWorkers}, m \in {-1, 0} :
            InitCall(n, layers, s, w, m)

InitLayer ==
    \E layer \in LayerScenes, s \in SettingsSpace :
        InitCall(1, [i \in {0} |-> layer], s, 1, -1)

\* No call of createLayerParts is under way.
PipelineIdle ==
    /\ total_layers = 0
    /\ slicer_layers = <<>> /\ slicer_in = <<>>
    /\ mesh_layers = <<>>
    /\ task_pc = <<>> /\ task_result = <<>>
    /\ main_pc = "off"
    /\ scan_nr = 0
    /\ accesses = {} /\ scan_reads = {}
    /\ workers = 1
    /\ layer_nr_max_filled_layer = -1 /\ max_filled_in = -1

InitQuery ==
    /\ q_shape \in QueryShapes
    /\ q_point \in QueryPoints
    /\ q_border \in BOOLEAN
    /\ q_pc = {}
    /\ q_inside = FALSE
    /\ q_found = 0
    /\ settings \in {s \in SettingsSpace : s.magic_mesh_surface_mode = "NORMAL"
                        /\ ~ s.meshfix_union_all /\ ~ s.meshfix_union_all_remove_holes}
    /\ settings_in = settings
    /\ PipelineIdle
    /\ CallIdle

RunStitch == \E layer_nr \in Layers : TaskStitch(layer_nr)
RunFixup == \E layer_nr \in Layers : TaskFixup(layer_nr)
RunSplit == \E layer_nr \in Layers : TaskSplit(layer_nr)
RunMaterialize == \E layer_nr \in Layers : TaskMaterialize(layer_nr)

Next ==
    \/ RunStitch
    \/ RunFixup
    \/ RunSplit
    \/ RunMaterialize
    \/ ParallelForJoin
    \/ ScanStep

Spec == Init /\ [][Next]_vars

SpecLayer == InitLayer /\ [][Next]_vars

NextQuery ==
    \/ CallInside
    \/ CallFindInside

SpecQuery == InitQuery /\ [][NextQuery]_vars

(***************************************************************************)
(* Properties of the parallel phase and of the scan (specification Spec).  *)
(***************************************************************************)
TaskOver(i) == task_pc[i] = "done"

\* C1: no two tasks of distinct layer indices access a common location with at
\* least one of them writing: the task of layer i touches only mesh.layers[i] and
\* slicer->layers[i], and the settings are only read.
C1_TasksTouchOnlyTheirOwnLayer ==
    /\ \A a \in accesses :
          IF a.obj = "mesh.settings" THEN ~ a.write
          ELSE a.obj \in {"mesh.layers", "slicer.layers"} /\ a.idx = a.task
    /\ \A a, b \in accesses :
          (a.task # b.task /\ a.obj = b.obj /\ a.idx = b.idx) => (~ a.write /\ ~ b.write)

\* Two tasks are in flight at once, each having written to its layers.
C1_Witness ==
    \E i, j \in Layers :
        /\ i # j
        /\ task_pc[i] = "split" /\ task_pc[j] = "materialize"
        /\ \E a, b \in accesses : a.task = i /\ a.write /\ b.task = j /\ b.write

\* C3: the backward scan starts only after the task of every layer is over: it
\* reads no layer whose task is still running, and createLayerParts does not
\* return while a task runs.
C3_ScanAfterAllTasks ==
    /\ main_pc \in {"scan", "done"} => \A i \in Layers : TaskOver(i)
    /\ \A i \in scan_reads : TaskOver(i)

\* The scan has read a layer of a run over several layers.
C3_Witness == main_pc = "scan" /\ total_layers >= 2 /\ scan_reads # {}

\* What one call of createLayerWithParts leaves in the storage of layer i.
LayerOutcome(i) ==
    createLayerWithParts(settings_in, EmptyStorageLayer, slicer_in[i]).storageLayer

FilledOutcomes == {i \in Layers : layer_filled(settings_in, LayerOutcome(i))}

\* C4: whatever the order and interleaving of the tasks and the number of
\* workers, createLayerParts ends with the same parts in every layer and the
\* same layer_nr_max_filled_layer: those the input and the settings determine.
C4_ScheduleIndependent ==
    main_pc = "done" =>
        /\ mesh_layers = [i \in Layers |-> LayerOutcome(i)]
        /\ layer_nr_max_filled_layer =
              IF FilledOutcomes = {} THEN max_filled_in ELSE SetMax(FilledOutcomes)

\* A run over several layers, with several workers, that left parts in two layers.
C4_Witness ==
    /\ main_pc = "done" /\ workers >= 2
    /\ \E i, j \in Layers : i # j /\ Len(mesh_layers[i].parts) > 0
                                  /\ Len(mesh_layers[j].parts) > 0

\* The layers that hold something: a part or, unless the surface mode is NORMAL,
\* an open polyline.
NonEmptyLayers ==
    {i \in Layers :
        \/ mesh_layers[i].parts # <<>>
        \/ (settings.magic_mesh_surface_mode \in {"SURFACE", "BOTH"}
            /\ mesh_layers[i].open_polylines # <<>>)}

\* C5: after createLayerParts, layer_nr_max_filled_layer is the highest index of
\* a non-empty layer; without any (also without layers) it keeps its value.
C5_MaxFilledLayer ==
    main_pc = "done" =>
        IF NonEmptyLayers = {}
        THEN layer_nr_max_filled_layer = max_filled_in
        ELSE /\ layer_nr_max_filled_layer \in NonEmptyLayers
             /\ \A i \in NonEmptyLayers : i <= layer_nr_max_filled_layer

\* The scan passed an empty top layer and found a filled layer below it.
C5_Witness ==
    /\ main_pc = "done"
    /\ Cardinality(NonEmptyLayers) >= 1
    /\ total_layers - 1 \notin NonEmptyLayers
    /\ layer_nr_max_filled_layer # max_filled_in

HasResult(i) == task_pc[i] \in {"materialize", "done"}

\* C6 as claimed: with surface mode SURFACE and neither meshfix_union_all nor
\* meshfix_union_all_remove_holes every non-empty polygon is a part of its own,
\* verbatim and in input order; in every other configuration the parts are
\* those of splitIntoParts with unionAll = (union_all OR union_all_remove_holes).
C6_SplitPolicy ==
    \A i \in Layers :
        HasResult(i) =>
            LET polygons == slicer_layers[i].polygons_
                nonempty == SelectSeq(polygons, LAMBDA poly : poly # <<>>)
            IN  task_result[i] =
                    IF /\ settings.magic_mesh_surface_mode = "SURFACE"
                       /\ ~ settings.meshfix_union_all
                       /\ ~ settings.meshfix_union_all_remove_holes
                    THEN [k \in 1 .. Len(nonempty) |-> <<nonempty[k]>>]
                    ELSE splitIntoParts(polygons,
                                        settings.meshfix_union_all
                                        \/ settings.meshfix_union_all_remove_holes)

\* C7: after createLayerWithParts every part of the layer has a non-empty
\* outline, and the parts are, in order, the non-empty regions of `result`.
C7_PartsAreTheNonEmptyRegions ==
    \A i \in Layers :
        TaskOver(i) =>
            LET parts == mesh_layers[i].parts
                regions == SelectSeq(task_result[i], LAMBDA region : region # <<>>)
            IN  /\ \A k \in 1 .. Len(parts) :
                      parts[k].outline # <<>> /\ AllPoints(parts[k].outline) # {}
                /\ Len(parts) = Len(regions)
                /\ \A k \in 1 .. Len(parts) : parts[k].outline = regions[k]

\* A task is over that made several parts, one of them of several polygons.
C7_Witness ==
    \E i \in Layers :
        /\ TaskOver(i)
        /\ Len(mesh_layers[i].parts) >= 2
        /\ \E k \in 1 .. Len(mesh_layers[i].parts) :
              Len(mesh_layers[i].parts[k].outline) >= 2

\* The nodes of a PolyTree below `node`, each as the path of child positions
\* that leads to it from `node`.
RECURSIVE NodePaths(_, _)
NodePaths(node, prefix) ==
    UNION {{prefix \o <<c>>} \cup NodePaths(node.Childs[c], prefix \o <<c>>) :
             c \in 1 .. Len(node.Childs)}

RECURSIVE NodeAt(_, _)
NodeAt(node, path) ==
    IF path = <<>> THEN node ELSE NodeAt(node.Childs[Head(path)], Tail(path))

\* The solid contours: the nodes at even depth, the outermost being at depth 0.
SolidPaths(tree) == {path \in NodePaths(tree, <<>>) : Len(path) % 2 = 1}

\* A solid contour followed by the contours of its direct children, in child order.
SolidWithHoles(tree, path) ==
    LET node == NodeAt(tree, path)
    IN  <<node.Contour>> \o [c \in 1 .. Len(node.Childs) |-> node.Childs[c].Contour]

\* The PolyTree the union of splitIntoParts made of the polygons of layer i.
UnionTreeOf(i) ==
    ClipperUnionTree(slicer_layers[i].polygons_,
                     IF settings.meshfix_union_all \/ settings.meshfix_union_all_remove_holes
                     THEN "NonZero" ELSE "EvenOdd")

\* Two disjoint squares and a square with a hole, no open polylines.
IsTwoSquaresAndSquareWithHole(layer) ==
    /\ Len(layer.polygons_) = 4
    /\ Range(layer.polygons_) = {RectCatalogue[1], Reverse(RectCatalogue[2]),
                                 RectCatalogue[3], RectCatalogue[4]}
    /\ layer.open_polylines_ = <<>>

\* C8: splitIntoParts returns exactly one part per solid contour of the nesting
\* forest (a node at even depth): the contour first, then the contours of the
\* node's direct children in child order; every contour of the forest is in
\* exactly one part.  Two disjoint squares and a square with a hole (surface
\* mode off, no union) give 3 parts of 1, 1 and 2 polygons of 4 vertices each.
C8_OnePartPerSolidContour ==
    \A i \in Layers :
        /\ (HasResult(i) /\ ~ takes_surface_branch(settings)) =>
              LET tree == UnionTreeOf(i)
                  parts == task_result[i]
                  polygons == Flatten(parts)
              IN  /\ Len(parts) = Cardinality(SolidPaths(tree))
                  /\ \A path \in SolidPaths(tree) :
                        \E k \in 1 .. Len(parts) : parts[k] = SolidWithHoles(tree, path)
                  /\ Len(polygons) = Cardinality(NodePaths(tree, <<>>))
                  /\ \A path \in NodePaths(tree, <<>>) :
                        Cardinality({k \in 1 .. Len(polygons) :
                                        polygons[k] = NodeAt(tree, path).Contour}) = 1
        /\ (/\ TaskOver(i)
            /\ IsTwoSquaresAndSquareWithHole(slicer_in[i])
            /\ settings.magic_mesh_surface_mode # "SURFACE"
            /\ ~ settings.meshfix_union_all
            /\ ~ settings.meshfix_union_all_remove_holes) =>
              LET parts == mesh_layers[i].parts
              IN  /\ Len(parts) = 3
                  /\ Cardinality({k \in 1 .. 3 : Len(parts[k].outline) = 1}) = 2
                  /\ Cardinality({k \in 1 .. 3 : Len(parts[k].outline) = 2}) = 1
                  /\ \A k \in 1 .. 3 : \A poly \in Range(parts[k].outline) : Len(poly) = 4

\* splitIntoParts walked a forest with a solid that has two holes and with an
\* island inside a hole.
C8_Witness ==
    \E i \in Layers :
        /\ HasResult(i) /\ ~ takes_surface_branch(settings)
        /\ \E path \in NodePaths(UnionTreeOf(i), <<>>) : Len(path) = 3
        /\ \E k \in 1 .. Len(task_result[i]) : Len(task_result[i][k]) = 3

(***************************************************************************)
(* Properties of the containment queries (specification SpecQuery).        *)
(***************************************************************************)
BothAnswered == q_pc = {"inside", "findInside"}

\* C9 as claimed: for every Shape, the empty one included, and every point p,
\* inside(p, true) holds exactly when findInside(p, true) is not NO_INDEX.
C9_InsideIffFound ==
    (BothAnswered /\ q_border) => (q_inside = (q_found # NO_INDEX))

\* p lies on no edge of a polygon of the Shape.
OnNoEdge(shape, p) ==
    \A k \in 1 .. Len(shape) : \A e \in 1 .. Len(shape[k]) :
        ~ OnSegment(p, EdgeStart(shape[k], e), EdgeEnd(shape[k], e))

\* The polygons (zero based) that an odd number of edges cross to the right of p.
OddPolygons(shape, p) ==
    {idx \in 0 .. Len(shape) - 1 : crossings(shape, p, idx) % 2 = 1}

\* C10 as claimed: for p on no polygon edge, findInside returns NO_INDEX when
\* the number of polygons with an odd crossing count is even, and otherwise the
\* index of an odd-crossing polygon whose minimum right-side crossing x is the
\* smallest; so the centre of the hole of a square with a centred hole gives
\* NO_INDEX and a point of the annulus gives the index of the square.
C10_FindInsideRule ==
    ("findInside" \in q_pc /\ OnNoEdge(q_shape, q_point)) =>
        LET odd == OddPolygons(q_shape, q_point)
        IN  /\ IF Cardinality(odd) % 2 = 0
               THEN q_found = NO_INDEX
               ELSE /\ q_found \in odd
                    /\ \A idx \in odd :
                          min_x(q_shape, q_point, q_found) <= min_x(q_shape, q_point, idx)
            /\ (q_shape = <<RectPoly(0, 0, 6, 6), Reverse(RectPoly(2, 2, 4, 4))>> =>
                  /\ q_point = Pt(3, 3) => q_found = NO_INDEX
                  /\ q_point = Pt(1, 3) => q_found = 0)

(***************************************************************************)
(* Shape::removeSmallAreas (shape.cpp:409-471).  The vector of polygons is *)
(* a sequence, an iterator is its zero-based offset from begin().          *)
(***************************************************************************)
MaxPolys == 4       \* removeSmallAreas runs on Shapes of 0 .. MaxPolys polygons

Abs(x) == IF x < 0 THEN -x ELSE x

\* std::abs(INT2MM2(ClipperLib::Area(poly))) < min_area_size.  INT2MM2 scales
\* by a positive constant; the threshold is kept in squared coordinate units
\* and the comparison is made on doubled areas.
below_min_area(poly, min_area_size) == Abs(Area2(poly)) < 2 * min_area_size

\* *dst = std::move(*src): the target takes the polygon, the source is left
\* without points (also when both are the same element).
move_assign(v, dst, src) ==
    [k \in 1 .. Len(v) |-> IF k = src + 1 THEN <<>>
                           ELSE IF k = dst + 1 THEN v[src + 1]
                           ELSE v[k]]

\* std::swap(*a, *b)
swap(v, a, b) ==
    [k \in 1 .. Len(v) |-> IF k = a + 1 THEN v[b + 1]
                           ELSE IF k = b + 1 THEN v[a + 1]
                           ELSE v[k]]

\* A faulty variant of it_after_removal: the iterator moves on after a removal.
it_after_removal_advanced(it) == it + 1

\* Lines 420 and 440: `continue` leaves `it` on the polygon just moved in.
it_after_removal(it) == it

\* Lines 414-423: the loop of the remove_holes branch.
RECURSIVE removeSmallAreas_all(_, _, _, _)
removeSmallAreas_all(v, it, new_end, min_area_size) ==
    IF ~ (it < new_end) THEN [v |-> v, new_end |-> new_end]
    ELSE IF below_min_area(v[it + 1], min_area_size)
    THEN removeSmallAreas_all(move_assign(v, it, new_end - 1), it_after_removal(it),
                              new_end - 1, min_area_size)
    ELSE removeSmallAreas_all(v, it + 1, new_end, min_area_size)

\* Lines 429-453: small outlines are swapped behind new_end, the positions of
\* the small holes are collected.
RECURSIVE removeSmallAreas_outlines(_, _, _, _, _)
removeSmallAreas_outlines(v, it, new_end, small_holes, min_area_size) ==
    IF ~ (it < new_end)
    THEN [v |-> v, new_end |-> new_end, small_holes |-> small_holes]
    ELSE IF below_min_area(v[it + 1], min_area_size)
    THEN IF Area2(v[it + 1]) >= 0
         THEN IF it < new_end - 1
              THEN removeSmallAreas_outlines(swap(v, new_end - 1, it), it_after_removal(it),
                                             new_end - 1, small_holes, min_area_size)
              ELSE [v |-> v, new_end |-> new_end - 1, small_holes |-> small_holes]
         ELSE removeSmallAreas_outlines(v, it + 1, new_end, Append(small_holes, it),
                                        min_area_size)
    ELSE removeSmallAreas_outlines(v, it + 1, new_end, small_holes, min_area_size)

\* Polygon::inside(p) with its default border_result = false.
Polygon_inside(poly, p) == PointInPolygon(p, poly) = 1

\* A faulty variant of hole_in_outline: the last point of the hole is tested.
hole_in_outline_back(outline, hole) == Polygon_inside(outline, hole[Len(hole)])

\* Line 462: outline_it->inside((*hole_it)->front())
hole_in_outline(outline, hole) == Polygon_inside(outline, hole[1])

\* Lines 458-468: the small holes from the last to the first; a hole whose
\* first point lies in a removed outline is overwritten by the last kept polygon.
RECURSIVE removeSmallAreas_holes(_, _, _, _, _)
removeSmallAreas_holes(v, new_end, removed_outlines_start, small_holes, k) ==
    IF k < 1 THEN [v |-> v, new_end |-> new_end]
    ELSE LET hole_it == small_holes[k]
         IN  IF \E outline_it \in removed_outlines_start .. Len(v) - 1 :
                    hole_in_outline(v[outline_it + 1], v[hole_it + 1])
             THEN removeSmallAreas_holes(move_assign(v, hole_it, new_end - 1), new_end - 1,
                                         removed_outlines_start, small_holes, k - 1)
             ELSE removeSmallAreas_holes(v, new_end, removed_outlines_start,
                                         small_holes, k - 1)

\* Shape::removeSmallAreas(min_area_size, remove_holes); line 470 cuts the
\* vector at new_end.
removeSmallAreas(shape, min_area_size, remove_holes) ==
    IF remove_holes
    THEN LET r == removeSmallAreas_all(shape, 0, Len(shape), min_area_size)
         IN  SubSeq(r.v, 1, r.new_end)
    ELSE LET o == removeSmallAreas_outlines(shape, 0, Len(shape), <<>>, min_area_size)
             r == removeSmallAreas_holes(o.v, o.new_end, o.new_end, o.small_holes,
                                         Len(o.small_holes))
         IN  SubSeq(r.v, 1, r.new_end)

\* The polygons the Shapes are made of: a large solid, a large hole, two small
\* solids, a small hole that starts inside the first small solid and ends
\* outside, one that starts apart from both, one that starts on the first small
\* solid's border, and a polygon of two points.
AreaPolygons ==
    {RectPoly(0, 0, 6, 6), Reverse(RectPoly(1, 1, 5, 5)),
     RectPoly(0, 0, 2, 2), RectPoly(4, 4, 5, 5),
     <<Pt(1, 1), Pt(1, 3), Pt(3, 3), Pt(3, 1)>>,
     <<Pt(3, 3), Pt(3, 4), Pt(4, 4), Pt(4, 3)>>,
     <<Pt(2, 1), Pt(2, 2), Pt(3, 2), Pt(3, 1)>>,
     <<Pt(0, 0), Pt(1, 1)>>}

AreaShapes == UNION {[1 .. n -> AreaPolygons] : n \in 0 .. MaxPolys}

\* Thresholds below every area, between the small and the large areas, and
\* between the large hole and the large solid.
AreaThresholds == {0, 5, 20}

\* Settings of a run that makes no use of them.
IdleSettings ==
    [wall_line_width_0 |-> 1, meshfix_union_all_remove_holes |-> FALSE,
     meshfix_union_all |-> FALSE, magic_mesh_surface_mode |-> "NORMAL"]

\* The state at a call of one operation with arguments args.
InitOperation(args) ==
    /\ call_args \in args
    /\ call_result = <<>>
    /\ call_pc = "call"
    /\ settings = IdleSettings
    /\ settings_in = settings
    /\ PipelineIdle
    /\ QueryIdle

InitAreas ==
    InitOperation([op : {"removeSmallAreas"}, shape : AreaShapes,
                   min_area_size : AreaThresholds, remove_holes : BOOLEAN])

CallRemoveSmallAreas ==
    /\ call_pc = "call"
    /\ call_args.op = "removeSmallAreas"
    /\ call_result' = removeSmallAreas(call_args.shape, call_args.min_area_size,
                                       call_args.remove_holes)
    /\ call_pc' = "done"
    /\ UNCHANGED <<call_args, pipeline_vars, query_vars>>

NextAreas == CallRemoveSmallAreas

SpecAreas == InitAreas /\ [][NextAreas]_vars

(***************************************************************************)
(* Properties of removeSmallAreas (specification SpecAreas).               *)
(***************************************************************************)
AreasReturned(remove_holes) ==
    /\ call_pc = "done"
    /\ call_args.op = "removeSmallAreas"
    /\ call_args.remove_holes = remove_holes

\* How often polygon poly occurs in shape.
Count(shape, poly) == Cardinality({k \in 1 .. Len(shape) : shape[k] = poly})

SmallSolids(shape, t) ==
    {shape[k] : k \in {j \in 1 .. Len(shape) :
                          below_min_area(shape[j], t) /\ Area2(shape[j]) >= 0}}

IsSmallHole(poly, t) == below_min_area(poly, t) /\ Area2(poly) < 0

\* The first point of hole lies strictly inside none of the solids.
StartsOutside(hole, solids) == \A o \in solids : PointInPolygon(hole[1], o) # 1

\* C11: after removeSmallAreas(t, false) no solid of area below t is left,
\* every polygon of area at least t is there as often as before, and a hole of
\* area below t is there as often as before when its first point lies inside
\* none of the removed small solids and is gone otherwise.
C11_SmallSolidsAndTheirHolesRemoved ==
    AreasReturned(FALSE) =>
        LET in == call_args.shape
            t == call_args.min_area_size
            out == call_result
            removed == SmallSolids(in, t)
        IN  /\ \A k \in 1 .. Len(out) :
                    ~ (Area2(out[k]) >= 0 /\ below_min_area(out[k], t))
            /\ \A poly \in Range(in) \cup Range(out) :
                    /\ ~ below_min_area(poly, t) => Count(out, poly) = Count(in, poly)
                    /\ IsSmallHole(poly, t) =>
                          Count(out, poly) = (IF StartsOutside(poly, removed)
                                              THEN Count(in, poly) ELSE 0)

\* A call that removed a small solid and a small hole starting inside it, and
\* kept a small hole starting elsewhere and a large polygon.
C11_Witness ==
    /\ AreasReturned(FALSE)
    /\ LET in == call_args.shape
           t == call_args.min_area_size
           out == call_result
           removed == SmallSolids(in, t)
       IN  /\ removed # {}
           /\ \E k \in 1 .. Len(in) :
                 IsSmallHole(in[k], t) /\ ~ StartsOutside(in[k], removed)
                 /\ Count(out, in[k]) = 0
           /\ \E k \in 1 .. Len(out) : IsSmallHole(out[k], t)
           /\ \E k \in 1 .. Len(out) : ~ below_min_area(out[k], t)

\* C12: after removeSmallAreas(t, true) the Shape holds exactly the input
\* polygons of area at least t, each as often as before, and nothing else.
C12_OnlyLargePolygonsRemain ==
    AreasReturned(TRUE) =>
        LET in == call_args.shape
            t == call_args.min_area_size
            out == call_result
        IN  \A poly \in Range(in) \cup Range(out) :
                Count(out, poly) = (IF below_min_area(poly, t) THEN 0 ELSE Count(in, poly))

\* A call whose first and last polygon were both small, so that a small
\* polygon was moved into the place of a removed one, and that kept a polygon.
C12_Witness ==
    /\ AreasReturned(TRUE)
    /\ LET in == call_args.shape
           t == call_args.min_area_size
       IN  /\ Len(in) >= 3
           /\ below_min_area(in[1], t)
           /\ below_min_area(in[Len(in)], t)
           /\ Len(call_result) >= 1

(***************************************************************************)
(* Shape::smooth_outward, Shape::smooth and Shape::smooth2                 *)
(* (shape.cpp:592-663).  The smoothing of a single polygon belongs to      *)
(* Polygon; what it leaves of the polygon is an input of the model.        *)
(***************************************************************************)
MaxSmoothPolys == 2     \* the smoothing runs on Shapes of 0 .. MaxSmoothPolys polygons
MaxKept == 4            \* the smoothing of one polygon leaves 0 .. MaxKept points

\* Polygon::smooth_outward / smooth / smooth2 (..., result): the points written
\* to the new line of the result; kept says how many of the polygon's points.
Polygon_smooth(poly, kept) == SubSeq(poly, 1, IF kept < Len(poly) THEN kept ELSE Len(poly))

\* ret.resize(ret.size() - 1)
drop_last(c) == SubSeq(c, 1, Len(c) - 1)

\* Lines 595-611, from polygon k on.
RECURSIVE smooth_outward_loop(_, _, _, _)
smooth_outward_loop(shape, kept, k, ret) ==
    IF k > Len(shape) THEN [status |-> "returned", shape |-> ret]
    ELSE LET poly == shape[k]
         IN  IF Len(poly) < 3 THEN smooth_outward_loop(shape, kept, k + 1, ret)
             ELSE IF Len(poly) = 3
             THEN smooth_outward_loop(shape, kept, k + 1, Append(ret, poly))
             ELSE LET line == Polygon_smooth(poly, kept[k])
                  IN  smooth_outward_loop(shape, kept, k + 1,
                          IF Len(line) < 3 THEN drop_last(Append(ret, line))
                          ELSE Append(ret, line))

smooth_outward(shape, kept) == smooth_outward_loop(shape, kept, 1, <<>>)

\* Lines 631-634: back.resize(back.size() - 1) shortens the polygon `back`
\* itself; for a polygon without points the size_t difference wraps and the
\* resize throws std::length_error.
smooth_short_line(ret, back) ==
    IF Len(back) = 0 THEN [status |-> "length_error", shape |-> ret]
    ELSE [status |-> "returned", shape |-> Append(ret, drop_last(back))]

\* Lines 618-635, from polygon k on.
RECURSIVE smooth_loop(_, _, _, _)
smooth_loop(shape, kept, k, ret) ==
    IF k > Len(shape) THEN [status |-> "returned", shape |-> ret]
    ELSE LET poly == shape[k]
         IN  IF Len(poly) < 3 THEN smooth_loop(shape, kept, k + 1, ret)
             ELSE IF Len(poly) = 3
             THEN smooth_loop(shape, kept, k + 1, Append(ret, poly))
             ELSE LET back == Polygon_smooth(poly, kept[k])
                  IN  IF Len(back) < 3
                      THEN LET after == smooth_short_line(ret, back)
                           IN  IF after.status = "returned"
                               THEN smooth_loop(shape, kept, k + 1, after.shape)
                               ELSE after
                      ELSE smooth_loop(shape, kept, k + 1, Append(ret, back))

smooth(shape, kept) == smooth_loop(shape, kept, 1, <<>>)

\* Line 648: poly.area() < min_area || poly.size() <= 5, on doubled areas.
smooth2_passes_through(poly, min_area) == Area2(poly) < 2 * min_area \/ Len(poly) <= 5

\* Lines 642-661, from polygon k on.
RECURSIVE smooth2_loop(_, _, _, _, _)
smooth2_loop(shape, kept, min_area, k, ret) ==
    IF k > Len(shape) THEN [status |-> "returned", shape |-> ret]
    ELSE LET poly == shape[k]
         IN  IF Len(poly) = 0 THEN smooth2_loop(shape, kept, min_area, k + 1, ret)
             ELSE IF smooth2_passes_through(poly, min_area)
             THEN smooth2_loop(shape, kept, min_area, k + 1, Append(ret, poly))
             ELSE IF Len(poly) < 4
             THEN smooth2_loop(shape, kept, min_area, k + 1, Append(ret, poly))
             ELSE smooth2_loop(shape, kept, min_area, k + 1,
                               Append(ret, Polygon_smooth(poly, kept[k])))

smooth2(shape, kept, min_area) == smooth2_loop(shape, kept, min_area, 1, <<>>)

\* Polygons of 0, 1, 2, 3, 4 and 6 points.
SmoothPolygons ==
    {<<>>, <<Pt(0, 0)>>, <<Pt(0, 0), Pt(4, 0)>>, <<Pt(0, 0), Pt(4, 0), Pt(0, 4)>>,
     RectPoly(0, 0, 4, 4),
     <<Pt(0, 0), Pt(3, 0), Pt(6, 0), Pt(6, 6), Pt(3, 6), Pt(0, 6)>>}

SmoothShapes == UNION {[1 .. n -> SmoothPolygons] : n \in 0 .. MaxSmoothPolys}

InitSmooth ==
    InitOperation([op : {"smooth_outward", "smooth", "smooth2"},
                   shape : SmoothShapes,
                   kept : [1 .. MaxSmoothPolys -> 0 .. MaxKept],
                   min_area : {0, 10}])

CallSmoothOutward ==
    /\ call_pc = "call"
    /\ call_args.op = "smooth_outward"
    /\ call_result' = smooth_outward(call_args.shape, call_args.kept)
    /\ call_pc' = "done"
    /\ UNCHANGED <<call_args, pipeline_vars, query_vars>>

CallSmooth ==
    /\ call_pc = "call"
    /\ call_args.op = "smooth"
    /\ call_result' = smooth(call_args.shape, call_args.kept)
    /\ call_pc' = "done"
    /\ UNCHANGED <<call_args, pipeline_vars, query_vars>>

CallSmooth2 ==
    /\ call_pc = "call"
    /\ call_args.op = "smooth2"
    /\ call_result' = smooth2(call_args.shape, call_args.kept, call_args.min_area)
    /\ call_pc' = "done"
    /\ UNCHANGED <<call_args, pipeline_vars, query_vars>>

NextSmooth ==
    \/ CallSmoothOutward
    \/ CallSmooth
    \/ CallSmooth2

SpecSmooth == InitSmooth /\ [][NextSmooth]_vars

(***************************************************************************)
(* Properties of the smoothing (specification SpecSmooth).                 *)
(***************************************************************************)
SmoothReturned ==
    /\ call_pc = "done"
    /\ call_args.op \in {"smooth_outward", "smooth", "smooth2"}

\* C13: the Shape returned by smooth, smooth_outward and smooth2 holds no
\* polygon of fewer than 3 points.
C13_NoDegeneratePolygonReturned ==
    SmoothReturned =>
        /\ call_result.status = "returned"
        /\ \A k \in 1 .. Len(call_result.shape) : Len(call_result.shape[k]) >= 3

(***************************************************************************)
(* insertFiberPath (layerPart.cpp:84-107).                                 *)
(***************************************************************************)
MaxFiberLayers == 2     \* meshStorage.layers holds 0 .. MaxFiberLayers layers
MaxFiberPaths == 2      \* fiberpath.paths holds 0 .. MaxFiberPaths fiber paths

\* size_t arithmetic wraps at 2^64.  The integers of TLC are narrower; the
\* model wraps at 2^30, still far above every height and thickness it uses.
SIZE_T_RANGE == 1073741824

\* meshStorage.layers.size() - 1 is a size_t and wraps for a mesh without
\* layers; the comparison with the signed LayerIndex takes it as -1.
last_layer_bound(size) ==
    LET wrapped == (size - 1) % SIZE_T_RANGE
    IN  IF wrapped >= SIZE_T_RANGE \div 2 THEN wrapped - SIZE_T_RANGE ELSE wrapped

\* Lines 89-93: both heights are converted to size_t, their difference is
\* taken in size_t and compared, as a double, with thickness / 2 - 1.
height_matches(layer, path) ==
    LET z_height == layer.printZ % SIZE_T_RANGE
        match_z == path.z_ % SIZE_T_RANGE
    IN  (match_z - z_height) % SIZE_T_RANGE < CDiv(layer.thickness, 2) - 1

\* OpenLinesSet::lineCut(outline): the lines of the set inside the outline.
\* The lines of the model lie either inside or outside an outline as a whole.
lineCut(paths, outline) ==
    SelectSeq(paths, LAMBDA line : \A p \in Range(line) : inside(outline, p, TRUE))

\* A faulty variant of attaches: every clip result is attached.
attaches_always(resLines) == TRUE

\* Line 98: resLines.size() > 0
attaches(resLines) == Len(resLines) > 0

\* Lines 95-102: the parts of a matched layer.
insertFiberPath_parts(parts, path) ==
    [k \in 1 .. Len(parts) |->
        LET resLines == lineCut(path.paths, parts[k].outline)
        IN  IF attaches(resLines)
            THEN [parts[k] EXCEPT !.fiberpath = Append(@, resLines)]
            ELSE parts[k]]

\* Lines 90-105: the fiber paths from path_nr on, for one layer.
RECURSIVE insertFiberPath_paths(_, _, _)
insertFiberPath_paths(layer, paths, path_nr) ==
    IF path_nr > Len(paths) THEN layer
    ELSE insertFiberPath_paths(
            IF height_matches(layer, paths[path_nr])
            THEN [layer EXCEPT !.parts = insertFiberPath_parts(@, paths[path_nr])]
            ELSE layer,
            paths, path_nr + 1)

\* Lines 86-106: the layers from layer_nr on; visited lists the indices at
\* which meshStorage.layers was accessed, tested the height tests made.
RECURSIVE insertFiberPath_layers(_, _, _, _, _)
insertFiberPath_layers(layers, paths, layer_nr, visited, tested) ==
    IF ~ (layer_nr < last_layer_bound(Len(layers)))
    THEN [layers |-> layers, visited |-> visited, tested |-> tested]
    ELSE insertFiberPath_layers(
            [layers EXCEPT ![layer_nr + 1] = insertFiberPath_paths(@, paths, 1)],
            paths, layer_nr + 1, Append(visited, layer_nr),
            tested \cup {[layer_nr |-> layer_nr, path_nr |-> k,
                          matched |-> height_matches(layers[layer_nr + 1], paths[k])] :
                            k \in 1 .. Len(paths)})

insertFiberPath(meshStorage, fiberpath) ==
    insertFiberPath_layers(meshStorage, fiberpath, 0, <<>>, {})

\* A part with a square outline and a part with a hole.
FiberPart(outline) ==
    [outline |-> outline, boundaryBox |-> AABB_calculate(outline), fiberpath |-> <<>>]

FiberParts ==
    <<FiberPart(<<RectPoly(0, 0, 6, 6)>>),
      FiberPart(<<RectPoly(10, 0, 16, 6), Reverse(RectPoly(12, 2, 14, 4))>>)>>

FiberLayers ==
    [printZ : {10, 20}, thickness : {10}, parts : {<<>>, FiberParts}]
    \cup {[printZ |-> 10, thickness |-> 4, parts |-> FiberParts]}

\* Line sets: a line inside the first part, that line and one inside the
\* second part, a line outside both.
FiberLines ==
    {<<<<Pt(1, 1), Pt(5, 5)>>>>,
     <<<<Pt(1, 1), Pt(5, 5)>>, <<Pt(11, 1), Pt(15, 1)>>>>,
     <<<<Pt(20, 20), Pt(22, 22)>>>>}

\* Fiber paths at, below and above the print height 10.
FiberPathSpace == [z_ : {8, 10, 12}, paths : FiberLines]

InitFiber ==
    InitOperation([op : {"insertFiberPath"},
                   layers : UNION {[1 .. n -> FiberLayers] : n \in 0 .. MaxFiberLayers},
                   paths : UNION {[1 .. n -> FiberPathSpace] : n \in 0 .. MaxFiberPaths}])

CallInsertFiberPath ==
    /\ call_pc = "call"
    /\ call_args.op = "insertFiberPath"
    /\ call_result' = insertFiberPath(call_args.layers, call_args.paths)
    /\ call_pc' = "done"
    /\ UNCHANGED <<call_args, pipeline_vars, query_vars>>

NextFiber == CallInsertFiberPath

SpecFiber == InitFiber /\ [][NextFiber]_vars

(***************************************************************************)
(* Properties of insertFiberPath (specification SpecFiber).                *)
(***************************************************************************)
FiberReturned == call_pc = "done" /\ call_args.op = "insertFiberPath"

\* C14: insertFiberPath visits every layer index 0 .. layers.size() - 1 once,
\* tests each visited layer against every fiber path, and accesses no other index.
C14_EveryLayerVisited ==
    FiberReturned =>
        LET n == Len(call_args.layers)
        IN  /\ call_result.visited = [i \in 1 .. n |-> i - 1]
            /\ {<<t.layer_nr, t.path_nr>> : t \in call_result.tested}
                    = (0 .. n - 1) \X (1 .. Len(call_args.paths))

\* The line sets a part holds after the call beyond those it held before.
Attached(layer_nr, k) ==
    LET before == call_args.layers[layer_nr + 1].parts[k].fiberpath
        after == call_result.layers[layer_nr + 1].parts[k].fiberpath
    IN  SubSeq(after, Len(before) + 1, Len(after))

\* The clip results that are to be attached to a part, in the order of the paths.
Expected(layer_nr, k) ==
    LET layer == call_args.layers[layer_nr + 1]
        clip(j) == lineCut(call_args.paths[j].paths, layer.parts[k].outline)
        hits == SelectSeq([j \in 1 .. Len(call_args.paths) |-> j],
                          LAMBDA j : /\ [layer_nr |-> layer_nr, path_nr |-> j,
                                         matched |-> TRUE] \in call_result.tested
                                     /\ clip(j) # <<>>)
    IN  [i \in 1 .. Len(hits) |-> clip(hits[i])]

\* C15: insertFiberPath changes nothing but the parts' fiber lists: layers,
\* parts, outlines and bounding boxes stay as they were, the earlier entries
\* of each list stay, and what is appended to a part are exactly the non-empty
\* clips of the paths whose height matched its layer.
C15_OnlyFiberListsGrow ==
    FiberReturned =>
        LET before == call_args.layers
            after == call_result.layers
        IN  /\ Len(after) = Len(before)
            /\ \A i \in 1 .. Len(before) :
                 /\ after[i].printZ = before[i].printZ
                 /\ after[i].thickness = before[i].thickness
                 /\ Len(after[i].parts) = Len(before[i].parts)
                 /\ \A k \in 1 .. Len(before[i].parts) :
                      /\ after[i].parts[k].outline = before[i].parts[k].outline
                      /\ after[i].parts[k].boundaryBox = before[i].parts[k].boundaryBox
                      /\ SubSeq(after[i].parts[k].fiberpath, 1,
                                Len(before[i].parts[k].fiberpath))
                            = before[i].parts[k].fiberpath
                      /\ Attached(i - 1, k) = Expected(i - 1, k)
                      /\ \A j \in 1 .. Len(Attached(i - 1, k)) : Attached(i - 1, k)[j] # <<>>

\* A call that attached a line set to one part of a layer, left another part
\* of that layer without one, and met a path whose height did not match.
C15_Witness ==
    /\ FiberReturned
    /\ \E t \in call_result.tested : ~ t.matched
    /\ \E i \in 1 .. Len(call_result.layers) :
         \E k, m \in 1 .. Len(call_result.layers[i].parts) :
            /\ Attached(i - 1, k) # <<>>
            /\ \E t \in call_result.tested : t.layer_nr = i - 1 /\ t.matched
                    /\ lineCut(call_args.paths[t.path_nr].paths,
                               call_args.layers[i].parts[m].outline) = <<>>

\* C18: a fiber path of height z matches a layer of print height printZ and
\* thickness t exactly when |z - printZ| < t/2 - 1, whichever of the two is higher.
C18_HeightTestSymmetric ==
    FiberReturned =>
        \A t \in call_result.tested :
            LET layer == call_args.layers[t.layer_nr + 1]
                path == call_args.paths[t.path_nr]
            IN  t.matched = (Abs(path.z_ - layer.printZ) < CDiv(layer.thickness, 2) - 1)

(***************************************************************************)
(* Shape::unionPolygons (shape.cpp:115-123).  The clipping engine fills    *)
(* the plane by the winding of all subject paths together; its result is   *)
(* kept as the set of unit cells it covers, which for the rectilinear      *)
(* polygons of the model is the covered point set.                         *)
(***************************************************************************)
MaxUnionPolys == 2      \* unionPolygons runs on Shapes of 0 .. MaxUnionPolys polygons

\* The unit cells of the plane the model looks at, each named by its lower
\* left corner.
Cells == {Pt(x, y) : x \in 0 .. MaxCoord - 1, y \in 0 .. MaxCoord - 1}

\* The centre of a cell and a polygon, both in doubled coordinates.
CellCentre2(c) == Pt(2 * X(c) + 1, 2 * Y(c) + 1)
Doubled(poly) == [k \in 1 .. Len(poly) |-> Pt(2 * X(poly[k]), 2 * Y(poly[k]))]

\* The winding of a closed path around point p (p on none of its edges):
\* edges crossing the ray from p to the right count +1 upwards, -1 downwards.
PathWinding(poly, p) ==
    IF Len(poly) < 3 THEN 0
    ELSE SeqSum([k \in 1 .. Len(poly) |->
            LET a == EdgeStart(poly, k)
                b == EdgeEnd(poly, k)
            IN  IF CrossesRay(p, a, b) THEN (IF Y(b) > Y(a) THEN 1 ELSE -1) ELSE 0])

\* clipper.AddPaths(..., ptSubject, true) followed by Execute(ctUnion, ret,
\* fill_type, fill_type): the cells filled by the subject paths under fill_type.
ClipperUnionRegion(subject, fill_type) ==
    {c \in Cells :
        LET p == CellCentre2(c)
            w == SeqSum([k \in 1 .. Len(subject) |-> PathWinding(Doubled(subject[k]), p)])
            n == Cardinality({k \in 1 .. Len(subject) :
                                PathWinding(Doubled(subject[k]), p) # 0})
        IN  Filled(fill_type, w, n)}

\* Lines 119-120: both Shapes are added as subject paths.
unionPolygons_subject(shape, other) == shape \o other

unionPolygons(shape, other, fill_type) ==
    ClipperUnionRegion(unionPolygons_subject(shape, other), fill_type)

\* Rectilinear polygons: overlapping squares, a hole, a large square, an
\* L-shaped polygon, an empty path.
UnionPolygons ==
    {RectPoly(0, 0, 4, 4), RectPoly(2, 1, 6, 5), Reverse(RectPoly(1, 1, 3, 3)),
     RectPoly(0, 0, 6, 6),
     <<Pt(0, 0), Pt(5, 0), Pt(5, 2), Pt(2, 2), Pt(2, 5), Pt(0, 5)>>,
     <<>>}

UnionShapes == UNION {[1 .. n -> UnionPolygons] : n \in 0 .. MaxUnionPolys}

InitUnion ==
    \E A \in UnionShapes :
        InitOperation([op : {"unionPolygons"}, shape : {A}, other : {A, <<>>},
                       fill_type : {"NonZero", "EvenOdd"}])

CallUnionPolygons ==
    /\ call_pc = "call"
    /\ call_args.op = "unionPolygons"
    /\ call_result' = unionPolygons(call_args.shape, call_args.other, call_args.fill_type)
    /\ call_pc' = "done"
    /\ UNCHANGED <<call_args, pipeline_vars, query_vars>>

NextUnion == CallUnionPolygons

SpecUnion == InitUnion /\ [][NextUnion]_vars

(***************************************************************************)
(* Properties of unionPolygons (specification SpecUnion).                  *)
(***************************************************************************)
\* C16: unionPolygons(A, A, fill_rule) covers the same point set as A
\* normalized under the fill rule, with equal area, for both fill rules.
C16_UnionIdempotent ==
    (call_pc = "done" /\ call_args.op = "unionPolygons" /\ call_args.other = call_args.shape)
        => LET A == ClipperUnionRegion(call_args.shape, call_args.fill_type)
           IN  /\ call_result = A
               /\ Cardinality(call_result) = Cardinality(A)

(***************************************************************************)
(* Shape::offsetMulti (shape.cpp:295-341).  The vector offset_dists is a   *)
(* sequence; an index i of the code reads element i + 1 of it.             *)
(***************************************************************************)
MaxOffsetPolys == 2     \* offsetMulti runs on Shapes of 0 .. MaxOffsetPolys polygons
MaxDists == 9           \* offset_dists holds 0 .. MaxDists distances

\* Shape::pointCount(): the points of all polygons together.
pointCount(shape) == SeqSum([k \in 1 .. Len(shape) |-> Len(shape[k])])

\* Line 298: assert is compiled out when NDEBUG is defined.
assert_fails(NDEBUG, condition) == ~ NDEBUG /\ ~ condition

\* Lines 302-307: the filter view over the polygons that are not empty.
non_empty_paths(shape) == SelectSeq(shape, LAMBDA path : ~ empty(path))

\* A faulty variant of prev_dist_index: one element further.
prev_dist_index_next(i, poly_line) == i + Len(poly_line)

\* Line 312: the index at which prev_dist is read.
prev_dist_index(i, poly_line) == i + Len(poly_line) - 1

\* The indices of offset_dists read for one polygon, in the order of the reads.
offsetMulti_reads(i, poly_line) ==
    <<prev_dist_index(i, poly_line)>> \o [j \in 1 .. Len(poly_line) |-> i + j - 1]

\* vSize2, vSize, normal and turn90CCW for the axis-parallel vectors of the model.
vSize2(v) == X(v) * X(v) + Y(v) * Y(v)
vSize(v) == Abs(X(v)) + Abs(Y(v))
normal(v, len) == Pt(CDiv(X(v) * len, vSize(v)), CDiv(Y(v) * len, vSize(v)))
turn90CCW(v) == Pt(-Y(v), X(v))

\* Lines 314-333: the points of poly_line from point j on.
RECURSIVE offsetMulti_points(_, _, _, _, _, _, _)
offsetMulti_points(poly_line, offset_dists, i, j, prev_p, prev_dist, ret_poly_line) ==
    IF j > Len(poly_line) THEN ret_poly_line
    ELSE LET p == poly_line[j]
             offset_dist == offset_dists[i + 1]
             vec_dir == Pt(X(prev_p) - X(p), Y(prev_p) - Y(p))
             offset_p1 == turn90CCW(normal(vec_dir, prev_dist))
             offset_p2 == turn90CCW(normal(vec_dir, offset_dist))
         IN  offsetMulti_points(poly_line, offset_dists, i + 1, j + 1, p, offset_dist,
                IF vSize2(vec_dir) > 10 * 10
                THEN ret_poly_line
                     \o <<Pt(X(prev_p) + X(offset_p1), Y(prev_p) + Y(offset_p1)),
                          Pt(X(p) + X(offset_p2), Y(p) + Y(offset_p2))>>
                ELSE ret_poly_line)

\* Lines 302-336: the non-empty polygons from polygon k on.  A read outside
\* offset_dists is undefined behaviour; the walk is not followed beyond it.
RECURSIVE offsetMulti_polys(_, _, _, _, _, _)
offsetMulti_polys(paths, offset_dists, k, i, ret, reads) ==
    IF k > Len(paths) THEN [status |-> "returned", ret |-> ret, reads |-> reads]
    ELSE LET poly_line == paths[k]
             here == offsetMulti_reads(i, poly_line)
         IN  IF \E r \in 1 .. Len(here) : here[r] >= Len(offset_dists)
             THEN [status |-> "undefined", ret |-> ret, reads |-> reads \o here]
             ELSE offsetMulti_polys(paths, offset_dists, k + 1, i + Len(poly_line),
                    Append(ret, offsetMulti_points(poly_line, offset_dists, i, 1,
                                    poly_line[Len(poly_line)],
                                    offset_dists[prev_dist_index(i, poly_line) + 1], <<>>)),
                    reads \o here)

\* Shape::offsetMulti(offset_dists) in a build with or without NDEBUG; ret is
\* the Shape handed to ClipperLib::SimplifyPolygons at line 338.
offsetMulti(shape, offset_dists, NDEBUG) ==
    IF assert_fails(NDEBUG, pointCount(shape) = Len(offset_dists))
    THEN [status |-> "assertion_failed", ret |-> <<>>, reads |-> <<>>]
    ELSE offsetMulti_polys(non_empty_paths(shape), offset_dists, 1, 0, <<>>, <<>>)

\* An empty polygon, a point, a line, a square, a rectangle with two short sides.
OffsetPolygons ==
    {<<>>, <<Pt(5, 5)>>, <<Pt(0, 0), Pt(20, 0)>>, RectPoly(0, 0, 20, 20),
     RectPoly(0, 0, 20, 5)}

OffsetShapes == UNION {[1 .. n -> OffsetPolygons] : n \in 0 .. MaxOffsetPolys}

\* Distances: all 1, all 3, or rising.
OffsetDists ==
    UNION {{[k \in 1 .. n |-> 1], [k \in 1 .. n |-> 3], [k \in 1 .. n |-> k]} :
             n \in 0 .. MaxDists}

InitOffset ==
    InitOperation([op : {"offsetMulti"}, shape : OffsetShapes,
                   offset_dists : OffsetDists, NDEBUG : BOOLEAN])

CallOffsetMulti ==
    /\ call_pc = "call"
    /\ call_args.op = "offsetMulti"
    /\ call_result' = offsetMulti(call_args.shape, call_args.offset_dists, call_args.NDEBUG)
    /\ call_pc' = "done"
    /\ UNCHANGED <<call_args, pipeline_vars, query_vars>>

NextOffset == CallOffsetMulti

SpecOffset == InitOffset /\ [][NextOffset]_vars

(***************************************************************************)
(* Properties of offsetMulti (specification SpecOffset).                   *)
(***************************************************************************)
OffsetReturned == call_pc = "done" /\ call_args.op = "offsetMulti"

SizesMatch == pointCount(call_args.shape) = Len(call_args.offset_dists)

ReadsInBounds ==
    /\ call_result.status = "returned"
    /\ \A r \in 1 .. Len(call_result.reads) :
            call_result.reads[r] \in 0 .. Len(call_args.offset_dists) - 1

AssertionFailedFirst ==
    /\ call_result.status = "assertion_failed"
    /\ call_result.reads = <<>>
    /\ call_result.ret = <<>>

MaxConvexPoints == 4    \* the first polygon of the Shape holds 0 .. MaxConvexPoints points

\* LinearAlg2D::pointIsLeftOfLine(p, a, b): positive when p lies to the left
\* of the line from a to b, zero on it, negative to the right.
pointIsLeftOfLine(p, a, b) ==
    (X(b) - X(a)) * (Y(p) - Y(a)) - (Y(b) - Y(a)) * (X(p) - X(a))

\* Lines 94-97: the order of the sort, by X and then by Y.
point_before(a, b) == IF X(a) = X(b) THEN Y(a) < Y(b) ELSE X(a) < X(b)

\* std::sort with point_before (equal points are indistinguishable).
RECURSIVE sort_insert(_, _)
sort_insert(sorted, p) ==
    IF sorted = <<>> THEN <<p>>
    ELSE IF point_before(p, Head(sorted)) THEN <<p>> \o sorted
    ELSE <<Head(sorted)>> \o sort_insert(Tail(sorted), p)

RECURSIVE sort_points(_)
sort_points(points) ==
    IF points = <<>> THEN <<>> ELSE sort_insert(sort_points(Tail(points)), Head(points))

\* Lines 80-85: the points popped from the back of convexified.
RECURSIVE make_sorted_poly_convex_pop(_, _)
make_sorted_poly_convex_pop(convexified, current) ==
    LET n == Len(convexified)
    IN  IF n >= 2
           /\ (pointIsLeftOfLine(convexified[n], convexified[n - 1], current) >= 0
               \/ pointIsLeftOfLine(convexified[n], convexified[n - 1], convexified[1]) > 0)
        THEN make_sorted_poly_convex_pop(SubSeq(convexified, 1, n - 1), current)
        ELSE convexified

\* Lines 72-88: the sliding windows of two points, from window w on.
RECURSIVE make_sorted_poly_convex_windows(_, _, _)
make_sorted_poly_convex_windows(poly, w, convexified) ==
    IF w + 1 > Len(poly) THEN convexified
    ELSE LET current == poly[w]
             after == poly[w + 1]
         IN  make_sorted_poly_convex_windows(poly, w + 1,
                IF pointIsLeftOfLine(current, convexified[Len(convexified)], after) < 0
                THEN Append(make_sorted_poly_convex_pop(convexified, current), current)
                ELSE convexified)

\* Lines 68-89: one pass over the sorted points, appending to convexified.
make_sorted_poly_convex(poly, convexified) ==
    make_sorted_poly_convex_windows(poly, 1, Append(convexified, poly[1]))

\* Shape::makeConvex().  A Shape that holds polygons but no point makes line 70
\* read poly[0] of an empty vector: undefined behaviour.
makeConvex(shape) ==
    IF empty(shape) THEN [status |-> "returned", shape |-> shape]
    ELSE LET points == sort_points(Flatten(shape))
         IN  IF points = <<>> THEN [status |-> "undefined", shape |-> shape]
             ELSE [status |-> "returned",
                   shape |-> <<make_sorted_poly_convex(Reverse(points),
                                    make_sorted_poly_convex(points, <<>>))>>]

ConvexCoords == 0 .. 2

ConvexPoints == {Pt(x, y) : x \in ConvexCoords, y \in ConvexCoords}

\* A polygon of up to MaxConvexPoints points, alone or followed by an empty
\* polygon or by a polygon of one point; and the empty Shape.
ConvexShapes ==
    LET first == UNION {[1 .. n -> ConvexPoints] : n \in 0 .. MaxConvexPoints}
    IN  {<<>>} \cup {<<poly>> : poly \in first}
        \cup {<<poly, more>> : poly \in first, more \in {<<>>, <<Pt(1, 1)>>}}

InitConvex == InitOperation([op : {"makeConvex"}, shape : ConvexShapes])

CallMakeConvex ==
    /\ call_pc = "call"
    /\ call_args.op = "makeConvex"
    /\ call_result' = makeConvex(call_args.shape)
    /\ call_pc' = "done"
    /\ UNCHANGED <<call_args, pipeline_vars, query_vars>>

NextConvex == CallMakeConvex

SpecConvex == InitConvex /\ [][NextConvex]_vars

(***************************************************************************)
(* Properties of makeConvex (specification SpecConvex).                    *)
(***************************************************************************)
\* The turn at each vertex of the closed chain hull.
Turns(hull) ==
    LET n == Len(hull)
    IN  {pointIsLeftOfLine(hull[((i + 1) % n) + 1], hull[i], hull[(i % n) + 1]) :
            i \in 1 .. n}

\* No reflex turn: all turns of the chain go the same way.
IsConvex(hull) == (\A t \in Turns(hull) : t >= 0) \/ (\A t \in Turns(hull) : t <= 0)

\* p lies inside hull or on its boundary, hull being convex.
InsideOrOn(p, hull) ==
    LET n == Len(hull)
        sides == {pointIsLeftOfLine(p, hull[i], hull[(i % n) + 1]) : i \in 1 .. n}
    IN  IF \A t \in Turns(hull) : t = 0
        THEN \E i \in 1 .. n : OnSegment(p, hull[i], hull[(i % n) + 1])
        ELSE IF \E t \in Turns(hull) : t > 0
        THEN \A s \in sides : s >= 0
        ELSE \A s \in sides : s <= 0

\* C19: makeConvex leaves an empty Shape empty and turns any other Shape into
\* one polygon whose vertices are input vertices, which has no reflex turn and
\* has every input vertex inside it or on its boundary.
C19_MakeConvexIsHull ==
    (call_pc = "done" /\ call_args.op = "makeConvex") =>
        IF empty(call_args.shape) THEN call_result = [status |-> "returned", shape |-> <<>>]
        ELSE /\ call_result.status = "returned"
             /\ Len(call_result.shape) = 1
             /\ LET hull == call_result.shape[1]
                    points == AllPoints(call_args.shape)
                IN  /\ Range(hull) \subseteq points
                    /\ IsConvex(hull)
                    /\ \A p \in points : InsideOrOn(p, hull)

(***************************************************************************)
(* Shape::splitIntoPartsView (shape.cpp:783-817).  A PartsView is a        *)
(* sequence of index lists; the indices are zero based as in the code.     *)
(***************************************************************************)
\* A faulty variant of next_index: the index after the one about to be filled.
next_index_beyond(reordered) == Len(reordered) + 1

\* Lines 808 and 812: reordered.size(), the index the next contour will get.
next_index(reordered) == Len(reordered)

RECURSIVE splitIntoPartsView_processPolyTreeNode(_, _, _)
RECURSIVE splitIntoPartsView_holes(_, _, _, _, _)
RECURSIVE splitIntoPartsView_children(_, _, _, _)

\* Lines 810-815: the holes of `child` from hole i on, for the part at pos.
splitIntoPartsView_holes(child, i, pos, partsView, reordered) ==
    IF i > Len(child.Childs) THEN [partsView |-> partsView, reordered |-> reordered]
    ELSE LET listed == [partsView EXCEPT ![pos] = Append(@, next_index(reordered))]
             below == splitIntoPartsView_processPolyTreeNode(
                          listed, Append(reordered, child.Childs[i].Contour),
                          child.Childs[i])
         IN  splitIntoPartsView_holes(child, i + 1, pos, below.partsView, below.reordered)

\* Lines 803-816: the children of `node` from child n on.
splitIntoPartsView_children(node, n, partsView, reordered) ==
    IF n > Len(node.Childs) THEN [partsView |-> partsView, reordered |-> reordered]
    ELSE LET child == node.Childs[n]
             started == Append(partsView, <<next_index(reordered)>>)
             done == splitIntoPartsView_holes(child, 1, Len(started), started,
                                              Append(reordered, child.Contour))
         IN  splitIntoPartsView_children(node, n + 1, done.partsView, done.reordered)

splitIntoPartsView_processPolyTreeNode(partsView, reordered, node) ==
    splitIntoPartsView_children(node, 1, partsView, reordered)

\* Shape::splitIntoPartsView(unionAll): the PartsView returned and the Shape
\* after line 797.
splitIntoPartsView(shape, unionAll) ==
    LET walked == splitIntoPartsView_processPolyTreeNode(
                      <<>>, <<>>, ClipperUnionTree(shape, splitIntoParts_fill(unionAll)))
    IN  [partsView |-> walked.partsView, shape |-> walked.reordered]

\* The Shapes split: the rectangles of the catalogue, each absent,
\* counter-clockwise or clockwise, in catalogue order or reversed.
ViewShapes ==
    UNION {{ChosenPolygons(choice, 1), Reverse(ChosenPolygons(choice, 1))} :
             choice \in [UsedRects -> {"absent", "ccw", "cw"}]}

InitView == InitOperation([op : {"splitIntoPartsView"}, shape : ViewShapes,
                           unionAll : BOOLEAN])

\* The call of splitIntoPartsView, and beside it splitIntoParts on the same
\* Shape and flag.
CallSplitIntoPartsView ==
    /\ call_pc = "call"
    /\ call_args.op = "splitIntoPartsView"
    /\ call_result' = [view |-> splitIntoPartsView(call_args.shape, call_args.unionAll),
                       parts |-> splitIntoParts(call_args.shape, call_args.unionAll)]
    /\ call_pc' = "done"
    /\ UNCHANGED <<call_args, pipeline_vars, query_vars>>

NextView == CallSplitIntoPartsView

SpecView == InitView /\ [][NextView]_vars

(***************************************************************************)
(* Properties of splitIntoPartsView (specification SpecView).              *)
(***************************************************************************)
ViewReturned == call_pc = "done" /\ call_args.op = "splitIntoPartsView"

\* The polygons found at the indices of view part i in the reordered Shape.
ViewPart(i) ==
    LET indices == call_result.view.partsView[i]
    IN  [k \in 1 .. Len(indices) |-> call_result.view.shape[indices[k] + 1]]

ViewParts == [i \in 1 .. Len(call_result.view.partsView) |-> ViewPart(i)]

\* Every position 0 .. size-1 of the reordered Shape is listed exactly once.
ViewPartitions ==
    LET pv == call_result.view.partsView
        listed == UNION {{<<i, k>> : k \in 1 .. Len(pv[i])} : i \in 1 .. Len(pv)}
        at(pos) == {ik \in listed : pv[ik[1]][ik[2]] = pos}
    IN  /\ \A pos \in 0 .. Len(call_result.view.shape) - 1 : Cardinality(at(pos)) = 1
        /\ \A i \in 1 .. Len(pv) : \A k \in 1 .. Len(pv[i]) :
                pv[i][k] \in 0 .. Len(call_result.view.shape) - 1

\* The union yields an island inside a hole: a contour three levels deep.
HasNestedIsland ==
    \E n \in 1 .. Len(call_result.parts) : \E m \in 1 .. Len(call_result.parts) :
        /\ n # m
        /\ Len(call_result.parts[m]) >= 2
        /\ \E h \in 2 .. Len(call_result.parts[m]) :
              BoxInside(BBox(call_result.parts[n][1]), BBox(call_result.parts[m][h]))

\* C20 as claimed: splitIntoPartsView and splitIntoParts return the same
\* number of parts, view part i holds in order the polygons of part i of
\* splitIntoParts, and the index lists partition the reordered Shape.
C20_ViewEqualsParts ==
    ViewReturned =>
        /\ Len(call_result.view.partsView) = Len(call_result.parts)
        /\ \A i \in 1 .. Len(call_result.parts) : ViewPart(i) = call_result.parts[i]
        /\ ViewPartitions

\* C20 as amended: both return the same parts, each with its polygons in the
\* same order, and the index lists partition the reordered Shape; the parts
\* come in the same order when no island lies inside a hole, otherwise the
\* view lists a solid before the islands in its holes and splitIntoParts
\* after them.
C20_ViewHoldsTheSameParts ==
    ViewReturned =>
        /\ Len(call_result.view.partsView) = Len(call_result.parts)
        /\ ViewPartitions
        /\ \A part \in Range(ViewParts) \cup Range(call_result.parts) :
                Count(ViewParts, part) = Count(call_result.parts, part)
        /\ ~ HasNestedIsland => ViewParts = call_result.parts
        /\ \A i, j \in 1 .. Len(ViewParts) :
              (\E h \in 2 .. Len(ViewParts[i]) :
                    BoxInside(BBox(ViewParts[j][1]), BBox(ViewParts[i][h]))) => i < j
        /\ \A i, j \in 1 .. Len(call_result.parts) :
              (\E h \in 2 .. Len(call_result.parts[i]) :
                    BoxInside(BBox(call_result.parts[j][1]),
                              BBox(call_result.parts[i][h]))) => j < i

\* A call on a square with a hole and an island inside the hole, beside
\* another square: the two operations return the parts in different orders.
C20_Witness ==
    /\ ViewReturned
    /\ HasNestedIsland
    /\ Len(call_result.parts) >= 3
    /\ ViewParts # call_result.parts

=============================================================================
